---- MODULE Spec2Model ----
(***************************************************************************)
(* avrogen: Avro record schemas -> Python dataclass declarations.          *)
(*                                                                         *)
(* Text is modelled as a rope: a string is a sequence of chunks (TLA+      *)
(* strings), and a file's content is a sequence of lines, each a rope.     *)
(* The last line of a text under construction is the line not yet ended   *)
(* by a newline.                                                           *)
(***************************************************************************)
EXTENDS Naturals, Sequences, FiniteSets, TLC

VARIABLES
    pc,             \* position in run(): "loading" (the two loops, told apart
                    \* by their counters), "opened", "done", "failed"
    include_files,  \* run() argument: sequence of file ids
    generate_files, \* run() argument: sequence of file ids
    inc_i,          \* next index of the include loop (line 25)
    gen_i,          \* next index of the generate loop (line 31)
    names,          \* avro.schema.Names: sequence of registered entries
    schemas,        \* the list built at lines 30-33
    out0,           \* the output file before the run
    out,            \* the output file now
    err,            \* the exception that ended the run
    mpc,            \* position of a direct avrotype_to_pytype call
    mtype,          \* its argument
    mres            \* its result

vars == <<pc, include_files, generate_files, inc_i, gen_i, names, schemas,
          out0, out, err, mpc, mtype, mres>>

runvars == <<pc, include_files, generate_files, inc_i, gen_i, names, schemas,
             out0, out, err>>

mapvars == <<mpc, mtype, mres>>

(***************************************************************************)
(* Bounds of the model.                                                    *)
(***************************************************************************)
MaxDepth == 3       \* nesting depth of the schemas given to avrotype_to_pytype
MaxInclude == 2     \* length of the --include list
MaxGenerate == 2    \* length of the --generate list

(***************************************************************************)
(* Schema nodes.  Every node has the same shape:                           *)
(*   tag  : the schema class                                               *)
(*   kind : the primitive kind (type_schema.type) of a PrimitiveSchema     *)
(*   name : the full name of a named schema                                *)
(*   sub  : items of an array, values of a map, alternatives of a union    *)
(***************************************************************************)
NoName == [ns |-> "", name |-> <<>>]

PrimitiveKinds ==
    {"null", "string", "bytes", "long", "int", "float", "double", "boolean"}

Primitive(k) == [tag |-> "primitive", kind |-> k, name |-> NoName, sub |-> <<>>]
Array(t) == [tag |-> "array", kind |-> "", name |-> NoName, sub |-> <<t>>]
Map(t) == [tag |-> "map", kind |-> "", name |-> NoName, sub |-> <<t>>]
Union(alts) == [tag |-> "union", kind |-> "", name |-> NoName, sub |-> alts]
Record(n) == [tag |-> "record", kind |-> "", name |-> n, sub |-> <<>>]
Enum(n) == [tag |-> "enum", kind |-> "", name |-> n, sub |-> <<>>]

(***************************************************************************)
(* Results of a call: a returned rope, or a raised exception.              *)
(***************************************************************************)
Ok(v) == [ok |-> TRUE, val |-> v, err |-> "", msg |-> <<>>]
Raise(e, m) == [ok |-> FALSE, val |-> <<>>, err |-> e, msg |-> m]

\* type(type_schema) as the f-string of lines 62 and 64 prints it
ClassOf(t) ==
    CASE t.tag = "primitive" -> "<class 'avro.schema.PrimitiveSchema'>"
      [] t.tag = "union" -> "<class 'avro.schema.UnionSchema'>"
      [] t.tag = "array" -> "<class 'avro.schema.ArraySchema'>"
      [] t.tag = "map" -> "<class 'avro.schema.MapSchema'>"
      [] t.tag = "record" -> "<class 'avro.schema.RecordSchema'>"
      [] OTHER -> "<class 'avro.schema.EnumSchema'>"

\* The dict literal of lines 42-51
PrimitiveTable ==
    [null |-> "None", string |-> "str", bytes |-> "bytes", long |-> "int",
     int |-> "int", float |-> "float", double |-> "double", boolean |-> "bool"]

is_optional_type(schema) ==
    IF Len(schema.sub) # 2 THEN FALSE
    ELSE IF schema.sub[1].tag # "primitive" THEN FALSE
    ELSE schema.sub[1].kind = "null"

\* "Optional[" + optional + "]"; an exception in the operand propagates
OptionalOf(r) ==
    IF r.ok THEN Ok(<<"Optional[">> \o r.val \o <<"]">>) ELSE r

ListOf_Empty(r) ==
    IF r.ok THEN Ok(<<"List[", "]">>) ELSE r

\* "List[" + avrotype_to_pytype(items) + "]"
ListOf(r) ==
    IF r.ok THEN Ok(<<"List[">> \o r.val \o <<"]">>) ELSE r

\* "Dict[str, " + avrotype_to_pytype(values) + "]"
DictOf(r) ==
    IF r.ok THEN Ok(<<"Dict[str, ">> \o r.val \o <<"]">>) ELSE r

\* raise(Exception(f"Unable to handle type {type(type_schema)}"))
UnableToHandle(t) == Raise("Exception", <<"Unable to handle type ", ClassOf(t)>>)

RECURSIVE avrotype_to_pytype(_)
avrotype_to_pytype(type_schema) ==
    IF type_schema.tag = "primitive"
    THEN Ok(<<PrimitiveTable[type_schema.kind]>>)
    ELSE IF type_schema.tag = "union" /\ is_optional_type(type_schema)
    THEN OptionalOf(avrotype_to_pytype(type_schema.sub[2]))
    ELSE IF type_schema.tag = "array"
    THEN ListOf(avrotype_to_pytype(type_schema.sub[1]))
    ELSE IF type_schema.tag = "map"
    THEN DictOf(avrotype_to_pytype(type_schema.sub[1]))
    ELSE IF type_schema.tag = "record"
    THEN UnableToHandle(type_schema)
    ELSE UnableToHandle(type_schema)

(***************************************************************************)
(* Direct calls of avrotype_to_pytype on every schema up to MaxDepth.      *)
(* A union never holds a union directly, as the Avro schema classes        *)
(* require.                                                                *)
(***************************************************************************)
SomeRecord == [ns |-> "example", name |-> <<"b", "a", "s", "e">>]
SomeEnum == [ns |-> "example", name |-> <<"s", "u", "i", "t">>]

Leaves ==
    {Primitive(k) : k \in PrimitiveKinds} \cup {Record(SomeRecord), Enum(SomeEnum)}

NonUnion(S) == {t \in S : t.tag # "union"}

UnionsOver(S) ==
    LET alt == NonUnion(S)
        nonnull == {t \in alt : t # Primitive("null")}
    IN  \* optional-shaped
        {Union(<<Primitive("null"), t>>) : t \in nonnull}
        \* one alternative; null last; three alternatives
        \cup {Union(<<t>>) : t \in alt}
        \cup {Union(<<t, Primitive("null")>>) : t \in nonnull}
        \cup {Union(<<Primitive("null"), t, Primitive("string")>>) :
                t \in nonnull \ {Primitive("string")}}

RECURSIVE SchemasUpTo(_)
SchemasUpTo(d) ==
    IF d = 0 THEN Leaves
    ELSE LET S == SchemasUpTo(d - 1)
         IN  Leaves \cup {Array(t) : t \in S} \cup {Map(t) : t \in S}
                    \cup UnionsOver(S)

NoResult == Raise("", <<>>)

(***************************************************************************)
(* Identifier casing.  Record names are sequences of one-character         *)
(* strings over lower-case letters, upper-case letters and "_".            *)
(***************************************************************************)
Lower == <<"a", "b", "c", "d", "e", "f", "g", "h", "i", "j", "k", "l", "m",
           "n", "o", "p", "q", "r", "s", "t", "u", "v", "w", "x", "y", "z">>
Upper == <<"A", "B", "C", "D", "E", "F", "G", "H", "I", "J", "K", "L", "M",
           "N", "O", "P", "Q", "R", "S", "T", "U", "V", "W", "X", "Y", "Z">>

IndexIn(c, alphabet) ==
    IF \E i \in 1..Len(alphabet) : alphabet[i] = c
    THEN CHOOSE i \in 1..Len(alphabet) : alphabet[i] = c
    ELSE 0

ToUpper(c) == IF IndexIn(c, Lower) > 0 THEN Upper[IndexIn(c, Lower)] ELSE c
ToLower(c) == IF IndexIn(c, Upper) > 0 THEN Lower[IndexIn(c, Upper)] ELSE c

\* snakecased.split("_"): the words between the underscores, empty ones kept
RECURSIVE SplitUnderscore(_)
SplitUnderscore(s) ==
    IF \A i \in 1..Len(s) : s[i] # "_" THEN <<s>>
    ELSE LET k == CHOOSE i \in 1..Len(s) :
                      s[i] = "_" /\ \A j \in 1..(i - 1) : s[j] # "_"
         IN  <<SubSeq(s, 1, k - 1)>> \o SplitUnderscore(SubSeq(s, k + 1, Len(s)))

\* word.title() of a word of letters
Title(word) ==
    [i \in 1..Len(word) |-> IF i = 1 THEN ToUpper(word[i]) ELSE ToLower(word[i])]

RECURSIVE JoinWords(_)
JoinWords(ws) ==
    IF ws = <<>> THEN <<>> ELSE Title(Head(ws)) \o JoinWords(Tail(ws))

capital_case(snakecased) == JoinWords(SplitUnderscore(snakecased))

\* schema.avro_name.fullname
FullName(n) == IF n.ns = "" THEN n.name ELSE <<n.ns, ".">> \o n.name

(***************************************************************************)
(* Schema documents.  A document is the JSON of one record; in it a field  *)
(* type may also be                                                        *)
(*   Ref(n)       : the name of a type defined elsewhere                   *)
(*   RecordDef(n, types) : an inline record with fields of these types     *)
(***************************************************************************)
Ref(n) == [tag |-> "ref", kind |-> "", name |-> n, sub |-> <<>>]
RecordDef(n, types) == [tag |-> "recorddef", kind |-> "", name |-> n, sub |-> types]

Field(n, t) == [name |-> n, type |-> t, hasdefault |-> FALSE, default |-> ""]
\* d is repr(field.default)
FieldDefault(n, t, d) == [name |-> n, type |-> t, hasdefault |-> TRUE, default |-> d]

Name(ns, chars) == [ns |-> ns, name |-> chars]

PersonName == Name("example", <<"p", "e", "r", "s", "o", "n">>)
BaseName == Name("example", <<"b", "a", "s", "e", "_", "t", "y", "p", "e">>)
HolderName == Name("example", <<"h", "o", "l", "d", "e", "r">>)
OrphanName == Name("example", <<"o", "r", "p", "h", "a", "n">>)
MissingName == Name("example", <<"m", "i", "s", "s", "i", "n", "g">>)
NodeName == Name("", <<"t", "r", "e", "e", "_", "N", "O", "D", "E">>)
PingName == Name("example", <<"p", "i", "n", "g">>)
PongName == Name("example", <<"p", "o", "n", "g">>)
ChoiceName == Name("example", <<"c", "h", "o", "i", "c", "e">>)

Document(n, doc, fields) ==
    [wellformed |-> TRUE, name |-> n, doc |-> doc, fields |-> fields]

FileIds ==
    {"person", "base", "holder", "orphan", "node", "ping", "choice", "broken"}

\* The documents given as --include: an include document is only parsed,
\* never rendered, so the two cyclic records add no case to this list.
IncludeIds == FileIds \ {"node", "ping"}

FileContent(f) ==
    CASE f = "person" ->
           Document(PersonName, "A person",
             <<Field("name", Primitive("string")),
               FieldDefault("age",
                 Union(<<Primitive("null"), Primitive("long")>>), "None"),
               Field("scores",
                 Array(Union(<<Primitive("null"), Map(Primitive("long"))>>))),
               FieldDefault("ratio", Primitive("double"), "0.5")>>)
      [] f = "base" -> Document(BaseName, "", <<>>)
      [] f = "holder" ->
           Document(HolderName, "",
             <<Field("tags", Array(Primitive("string"))),
               Field("base", Ref(BaseName))>>)
      [] f = "orphan" ->
           Document(OrphanName, "", <<Field("x", Ref(MissingName))>>)
      [] f = "node" ->
           Document(NodeName, "",
             <<Field("value", Primitive("int")), Field("next", Ref(NodeName))>>)
      [] f = "ping" ->
           Document(PingName, "",
             <<Field("pong", RecordDef(PongName, <<Ref(PingName)>>))>>)
      [] f = "choice" ->
           Document(ChoiceName, "",
             <<Field("v", Union(<<Primitive("string"), Primitive("int")>>))>>)
      [] OTHER ->
           [wellformed |-> FALSE, name |-> NoName, doc |-> "", fields |-> <<>>]

(***************************************************************************)
(* The names registry (avro.schema.Names) and document parsing             *)
(* (avro.schema.SchemaFromJSONData).  The registry is a sequence of        *)
(* entries in registration order; each entry keeps the file that           *)
(* registered the name.                                                    *)
(***************************************************************************)
Registered(reg, n) == \E i \in 1..Len(reg) : reg[i].name = n

\* resolve: the first entry registered under the name
Resolve(reg, n) ==
    reg[CHOOSE i \in 1..Len(reg) :
            reg[i].name = n /\ \A j \in 1..(i - 1) : reg[j].name # n]

\* whether register accepts the name
CanRegister(reg, n) == ~Registered(reg, n)

Register(reg, n, f) == Append(reg, [name |-> n, src |-> f])

Parsed(reg, node) == [ok |-> TRUE, reg |-> reg, node |-> node, err |-> ""]
ParseError(reg, e) == [ok |-> FALSE, reg |-> reg, node |-> Primitive("null"), err |-> e]

RECURSIVE ParseType(_, _, _)
RECURSIVE ParseTypes(_, _, _, _)

\* the types ts in order, each seeing what the ones before it registered;
\* done are the nodes parsed so far
ParseTypes(ts, reg, f, done) ==
    IF ts = <<>> THEN [ok |-> TRUE, reg |-> reg, nodes |-> done, err |-> ""]
    ELSE LET r == ParseType(Head(ts), reg, f)
         IN  IF r.ok THEN ParseTypes(Tail(ts), r.reg, f, Append(done, r.node))
             ELSE [ok |-> FALSE, reg |-> r.reg, nodes |-> done, err |-> r.err]

ParseType(t, reg, f) ==
    CASE t.tag = "ref" ->
           IF Registered(reg, t.name) THEN Parsed(reg, Record(t.name))
           ELSE ParseError(reg, "NameResolutionError")
      [] t.tag = "recorddef" ->
           IF ~CanRegister(reg, t.name) THEN ParseError(reg, "DuplicateNameError")
           ELSE LET r == ParseTypes(t.sub, Register(reg, t.name, f), f, <<>>)
                IN  IF r.ok THEN Parsed(r.reg, Record(t.name))
                    ELSE ParseError(r.reg, r.err)
      [] t.tag \in {"array", "map", "union"} ->
           LET r == ParseTypes(t.sub, reg, f, <<>>)
           IN  IF r.ok THEN Parsed(r.reg, [t EXCEPT !.sub = r.nodes])
               ELSE ParseError(r.reg, r.err)
      [] OTHER -> Parsed(reg, t)

FieldTypes(fields) == [i \in 1..Len(fields) |-> fields[i].type]

NoSchema == [file |-> "", name |-> NoName, doc |-> "", fields |-> <<>>]

\* avro.schema.SchemaFromJSONData(json.load(fp), names) on file f
LoadDocument(f, reg) ==
    LET d == FileContent(f)
    IN  IF ~d.wellformed
        THEN [ok |-> FALSE, reg |-> reg, schema |-> NoSchema, err |-> "JSONDecodeError"]
        ELSE LET r == ParseType(RecordDef(d.name, FieldTypes(d.fields)), reg, f)
                 nodes == ParseTypes(FieldTypes(d.fields),
                                     Register(reg, d.name, f), f, <<>>).nodes
             IN  IF r.ok
                 THEN [ok |-> TRUE, reg |-> r.reg, err |-> "",
                       schema |-> [file |-> f, name |-> d.name, doc |-> d.doc,
                                   fields |-> [i \in 1..Len(d.fields) |->
                                       [d.fields[i] EXCEPT !.type = nodes[i]]]]]
                 ELSE [ok |-> FALSE, reg |-> r.reg, schema |-> NoSchema, err |-> r.err]

(***************************************************************************)
(* The template of write_dataclasses.  A text is a non-empty sequence of   *)
(* lines whose last line is not yet ended; Cat is string concatenation.    *)
(***************************************************************************)
Cat(t1, t2) ==
    SubSeq(t1, 1, Len(t1) - 1) \o <<t1[Len(t1)] \o t2[1]>> \o Tail(t2)

EmptyText == << <<>> >>

\* lines 76-81; "{%-" of line 82 removes the newline after the decorator
Preamble ==
    << <<"from __future__ import annotations">>,
       <<>>,
       <<"import dataclasses">>,
       <<"from typing import Dict, Final, List, Optional">>,
       <<>>,
       <<"@dataclasses.dataclass">> >>

\* line 83; "{%-" of line 84 removes the newline after the colon
ClassLine(schema) ==
    << <<>>, <<"class ">> \o capital_case(schema.name.name) \o <<":">> >>

\* lines 84-85; "-%}" removes the newline after endif
DocText(schema) ==
    IF schema.doc # ""
    THEN << <<"\"\"\"", schema.doc>>, <<"\"\"\"">> >>
    ELSE EmptyText

\* line 87 after the newline of line 86; "{%-" of line 89 removes lines 87-88's
\* newlines
FieldText(field, pytype) ==
    << <<>>,
       <<"    ", field.name, ":">> \o pytype
         \o (IF field.hasdefault THEN <<" = ", field.default>> ELSE <<>>) >>

\* lines 89-93
IdentityText(schema) ==
    << <<>>,
       <<"    _avro_fullname: Final[str] = \"">> \o FullName(schema.name) \o <<"\"">>,
       <<"    _avro_namespace: Final[str] = \"", schema.name.ns, "\"">>,
       <<>>, <<>>, <<>> >>

RenderOk(t) == [ok |-> TRUE, text |-> t, err |-> "", msg |-> <<>>]
RenderRaise(r) == [ok |-> FALSE, text |-> EmptyText, err |-> r.err, msg |-> r.msg]

\* the loop of lines 86-89 from field i on, appended to text t
RECURSIVE RenderFields(_, _, _)
RenderFields(fields, i, t) ==
    IF i > Len(fields) THEN RenderOk(t)
    ELSE LET r == avrotype_to_pytype(fields[i].type)
         IN  IF r.ok THEN RenderFields(fields, i + 1, Cat(t, FieldText(fields[i], r.val)))
             ELSE RenderRaise(r)

\* what one pass of the loop of lines 82-94 puts before the fields
ClassHead(schema) == Cat(ClassLine(schema), DocText(schema))

\* the loop of lines 82-94 from schema k on, appended to text t
RECURSIVE RenderSchemas(_, _, _)
RenderSchemas(ss, k, t) ==
    IF k > Len(ss) THEN RenderOk(t)
    ELSE LET r == RenderFields(ss[k].fields, 1, Cat(t, ClassHead(ss[k])))
         IN  IF r.ok THEN RenderSchemas(ss, k + 1, Cat(r.text, IdentityText(ss[k])))
             ELSE r

\* tpl.render(...), lines 97-102; the template's last newline is not kept
Render(record_schemas) == RenderSchemas(record_schemas, 1, Preamble)

(***************************************************************************)
(* run(generate_files, include_files, out_file)                            *)
(***************************************************************************)
Absent == [exists |-> FALSE, content |-> EmptyText]
File(text) == [exists |-> TRUE, content |-> text]
OldContent == << <<"# written by hand">>, <<>> >>

NoError == [kind |-> "", msg |-> <<>>, stage |-> "", at |-> 0]

SeqsUpTo(S, lo, hi) == UNION {[1..n -> S] : n \in lo..hi}

RunInit ==
    /\ pc = "loading"
    /\ include_files \in SeqsUpTo(IncludeIds, 0, MaxInclude)
    /\ generate_files \in SeqsUpTo(FileIds, 1, MaxGenerate)
    /\ inc_i = 1
    /\ gen_i = 1
    /\ names = <<>>
    /\ schemas = <<>>
    /\ out0 \in {Absent, File(OldContent)}
    /\ out = out0
    /\ err = NoError

GenerateFirst == TRUE

FreshNames == <<>>

\* the one Names object of line 24, handed to every parse (lines 28 and 33)
SharedNames == names

\* the loop of lines 25-28 has ended
IncludesDone == inc_i > Len(include_files)

PrependSchema(ss, schema) == <<schema>> \o ss

\* schemas.append(...), line 33
AppendSchema(ss, schema) == Append(ss, schema)

\* one pass of the loop of lines 25-28
LoadInclude ==
    /\ pc = "loading"
    /\ ~IncludesDone
    /\ LET r == LoadDocument(include_files[inc_i], SharedNames)
       IN  /\ names' = r.reg
           /\ IF r.ok
              THEN /\ inc_i' = inc_i + 1
                   /\ UNCHANGED <<pc, err>>
              ELSE /\ pc' = "failed"
                   /\ err' = [kind |-> r.err, msg |-> <<>>,
                              stage |-> "include", at |-> inc_i]
                   /\ UNCHANGED inc_i
    /\ UNCHANGED <<include_files, generate_files, gen_i, schemas, out0, out>>
    /\ UNCHANGED mapvars

\* one pass of the loop of lines 31-33
LoadGenerate ==
    /\ pc = "loading"
    /\ IncludesDone
    /\ gen_i <= Len(generate_files)
    /\ LET r == LoadDocument(generate_files[gen_i], SharedNames)
       IN  /\ names' = r.reg
           /\ IF r.ok
              THEN /\ gen_i' = gen_i + 1
                   /\ schemas' = AppendSchema(schemas, r.schema)
                   /\ UNCHANGED <<pc, err>>
              ELSE /\ pc' = "failed"
                   /\ err' = [kind |-> r.err, msg |-> <<>>,
                              stage |-> "generate", at |-> gen_i]
                   /\ UNCHANGED <<gen_i, schemas>>
    /\ UNCHANGED <<include_files, generate_files, inc_i, out0, out>>
    /\ UNCHANGED mapvars

\* open(out_file, "w"), line 36: the file is created or truncated
OpenOut ==
    /\ pc = "loading"
    /\ IncludesDone
    /\ gen_i > Len(generate_files)
    /\ out' = File(EmptyText)
    /\ pc' = "opened"
    /\ UNCHANGED <<include_files, generate_files, inc_i, gen_i, names, schemas,
                   out0, err>>
    /\ UNCHANGED mapvars

\* write_dataclasses(schemas, fp), lines 37 and 97-103, and the end of the with
WriteDataclasses ==
    /\ pc = "opened"
    /\ LET r == Render(schemas)
       IN  IF r.ok
           THEN /\ out' = File(r.text)
                /\ pc' = "done"
                /\ UNCHANGED err
           ELSE /\ pc' = "failed"
                /\ err' = [kind |-> r.err, msg |-> r.msg, stage |-> "render", at |-> 0]
                /\ UNCHANGED out
    /\ UNCHANGED <<include_files, generate_files, inc_i, gen_i, names, schemas, out0>>
    /\ UNCHANGED mapvars

MapIdle ==
    /\ mpc = "idle"
    /\ mtype = Primitive("null")
    /\ mres = NoResult

Init == RunInit /\ MapIdle

Next == LoadInclude \/ LoadGenerate \/ OpenOut \/ WriteDataclasses

Spec == Init /\ [][Next]_vars

(***************************************************************************)
(* Direct calls of avrotype_to_pytype.                                     *)
(***************************************************************************)
RunIdle ==
    /\ pc = "idle"
    /\ include_files = <<>>
    /\ generate_files = <<>>
    /\ inc_i = 1
    /\ gen_i = 1
    /\ names = <<>>
    /\ schemas = <<>>
    /\ out0 = Absent
    /\ out = Absent
    /\ err = NoError

MapInit ==
    /\ RunIdle
    /\ mpc = "call"
    /\ mtype \in SchemasUpTo(MaxDepth)
    /\ mres = NoResult

MapType ==
    /\ mpc = "call"
    /\ mres' = avrotype_to_pytype(mtype)
    /\ mpc' = "returned"
    /\ UNCHANGED mtype
    /\ UNCHANGED runvars

MapNext == MapType

MapSpec == MapInit /\ [][MapNext]_vars

(***************************************************************************)
(* Properties of avrotype_to_pytype, checked under MapSpec.                *)
(***************************************************************************)
\* The target tokens the primitive table is specified to hold
ExpectedToken ==
    [null |-> "None", string |-> "str", bytes |-> "bytes", long |-> "int",
     int |-> "int", float |-> "float", double |-> "float", boolean |-> "bool"]

\* C1: every primitive kind maps to the token of the fixed table (long and
\* int to int, float and double to float), and no kind is unmapped.
C1_PrimitiveTable ==
    /\ DOMAIN PrimitiveTable = PrimitiveKinds
    /\ (mpc = "returned" /\ mtype.tag = "primitive")
          => mres = Ok(<<ExpectedToken[mtype.kind]>>)

OptionalShaped(t) ==
    t.tag = "union" /\ Len(t.sub) = 2 /\ t.sub[1] = Primitive("null")

\* C2: a union that is not optional-shaped fails with the dedicated
\* UnsupportedUnionShapeError, never with a type string or the generic error.
C2_UnsupportedUnionShape ==
    (mpc = "returned" /\ mtype.tag = "union" /\ ~OptionalShaped(mtype))
        => (~mres.ok /\ mres.err = "UnsupportedUnionShapeError")

Wrapped(open, r, result) ==
    IF r.ok THEN result.ok /\ result.val = <<open>> \o r.val \o <<"]">>
    ELSE ~result.ok /\ result.err = r.err /\ result.msg = r.msg

\* C3: the mapping of an array, a map and an optional-shaped union is the
\* mapping of its item wrapped in List[..], Dict[str, ..] and Optional[..],
\* with nothing flattened; when the item's mapping fails, so does the
\* container's.
C3_Compositional ==
    mpc = "returned" =>
        /\ mtype.tag = "array"
              => Wrapped("List[", avrotype_to_pytype(mtype.sub[1]), mres)
        /\ mtype.tag = "map"
              => Wrapped("Dict[str, ", avrotype_to_pytype(mtype.sub[1]), mres)
        /\ OptionalShaped(mtype)
              => Wrapped("Optional[", avrotype_to_pytype(mtype.sub[2]), mres)

\* array of optional of map of long, mapped
C3_Witness ==
    /\ mpc = "returned"
    /\ mtype = Array(Union(<<Primitive("null"), Map(Primitive("long"))>>))
    /\ mres = Ok(<<"List[", "Optional[", "Dict[str, ", "int", "]", "]", "]">>)

\* a record, directly or inside optionals, arrays and maps
RECURSIVE ReachesRecord(_)
ReachesRecord(t) ==
    \/ t.tag = "record"
    \/ t.tag \in {"array", "map"} /\ ReachesRecord(t.sub[1])
    \/ OptionalShaped(t) /\ ReachesRecord(t.sub[2])

\* C5: a field type that is another record (directly or inside an optional,
\* an array or a map) fails with UnsupportedNestedRecordError, an error
\* distinct from the generic unsupported-type error.
C5_NestedRecordError ==
    (mpc = "returned" /\ ReachesRecord(mtype))
        => (~mres.ok /\ mres.err = "UnsupportedNestedRecordError"
                     /\ mres.err # avrotype_to_pytype(Enum(SomeEnum)).err)

(***************************************************************************)
(* Properties of run, checked under Spec.                                  *)
(***************************************************************************)
\* names a document type refers to, and names it defines
RECURSIVE RefsOf(_)
RefsOf(t) ==
    (IF t.tag = "ref" THEN {t.name} ELSE {})
    \cup UNION {RefsOf(t.sub[i]) : i \in 1..Len(t.sub)}

RECURSIVE DefsOf(_)
DefsOf(t) ==
    (IF t.tag = "recorddef" THEN {t.name} ELSE {})
    \cup UNION {DefsOf(t.sub[i]) : i \in 1..Len(t.sub)}

DocType(f) == RecordDef(FileContent(f).name, FieldTypes(FileContent(f).fields))
DocRefs(f) == IF FileContent(f).wellformed THEN RefsOf(DocType(f)) ELSE {}
DocDefs(f) == IF FileContent(f).wellformed THEN DefsOf(DocType(f)) ELSE {}

Range(q) == {q[i] : i \in 1..Len(q)}

\* the files parsed without error so far, in the order they were parsed
Loaded ==
    SubSeq(include_files, 1, inc_i - 1) \o SubSeq(generate_files, 1, gen_i - 1)

ParseFailed == pc = "failed" /\ err.stage \in {"include", "generate"}

FailedFile ==
    IF err.stage = "include" THEN include_files[err.at] ELSE generate_files[err.at]

Attempted == Loaded \o (IF ParseFailed THEN <<FailedFile>> ELSE <<>>)

FirstPos(q, x) == CHOOSE i \in 1..Len(q) : q[i] = x /\ \A j \in 1..(i - 1) : q[j] # x

GenerateStarted ==
    gen_i > 1 \/ pc \in {"opened", "done"} \/ err.stage \in {"generate", "render"}

\* C6: every include document is loaded into the registry before the first
\* generate document is parsed and documents are taken left to right; a
\* generate document's reference to a type of an include document resolves,
\* and one to a name registered nowhere ends the run with a name-resolution
\* error.
C6_IncludesBeforeGenerates ==
    /\ GenerateStarted =>
          /\ inc_i = Len(include_files) + 1
          /\ \A i \in 1..Len(include_files) :
                \A n \in DocDefs(include_files[i]) :
                    Registered(names, n) /\ Resolve(names, n).src = include_files[i]
    /\ \A i \in 1..Len(names) :
          /\ names[i].src \in Range(Attempted)
          /\ \A j \in 1..(i - 1) :
                FirstPos(Attempted, names[j].src) <= FirstPos(Attempted, names[i].src)
    /\ \A k \in 1..(gen_i - 1) :
          \A n \in DocRefs(generate_files[k]) : Registered(names, n)
    /\ (pc = "failed" /\ err.stage = "generate" /\ err.kind = "NameResolutionError") =>
          \E n \in DocRefs(FailedFile) :
              /\ ~Registered(names, n)
              /\ \A i \in 1..Len(include_files) : n \notin DocDefs(include_files[i])
    /\ \A k \in 1..Len(generate_files) :
          (/\ GenerateStarted
           /\ FileContent(generate_files[k]).wellformed
           /\ \E n \in DocRefs(generate_files[k]) :
                 \A f \in Range(include_files) \cup Range(generate_files) :
                     n \notin DocDefs(f))
          => /\ gen_i <= k
             /\ pc \in {"loading", "failed"}
             /\ (pc = "failed" /\ err.stage = "generate" /\ err.at = k
                  /\ \A f \in Range(Loaded) : DocDefs(f) \cap DocDefs(generate_files[k]) = {})
                   => err.kind = "NameResolutionError"
    /\ pc = "failed" => ~ENABLED Next

\* a reference resolved through an include document, then a reference to a
\* name registered nowhere
C6_Witness ==
    /\ include_files = <<"base">>
    /\ generate_files = <<"holder", "orphan">>
    /\ gen_i = 2
    /\ schemas # <<>> /\ schemas[1].fields[2].type = Record(BaseName)
    /\ pc = "failed"
    /\ err.kind = "NameResolutionError"

NoDuplicateNames(reg) ==
    \A i \in 1..Len(reg) : \A j \in 1..Len(reg) : reg[i].name = reg[j].name => i = j

HasNextFile == pc = "loading" /\ (~IncludesDone \/ gen_i <= Len(generate_files))

NextFile ==
    IF ~IncludesDone THEN include_files[inc_i] ELSE generate_files[gen_i]

C7_Step ==
    /\ Len(names') >= Len(names)
    /\ \A i \in 1..Len(names) : names'[i] = names[i]
    /\ \A i \in 1..Len(names) : Resolve(names', names[i].name) = Resolve(names, names[i].name)
    /\ NoDuplicateNames(names')
    /\ (HasNextFile /\ \E n \in DocDefs(NextFile) : Registered(names, n))
          => /\ pc' = "failed"
             /\ err'.kind = "DuplicateNameError"
             /\ schemas' = schemas

\* C7: the registry of a run only grows and never overwrites: every name
\* registered earlier keeps the entry of its first registrant, no name is
\* registered twice, and loading a document that defines a name already
\* present fails with DuplicateNameError and ends the run.
C7_RegistryAppendOnly == [][C7_Step]_vars

\* the same record in two include documents
C7_Witness ==
    /\ include_files = <<"person", "person">>
    /\ pc = "failed"
    /\ err = [kind |-> "DuplicateNameError", msg |-> <<>>, stage |-> "include", at |-> 2]
    /\ names = <<[name |-> PersonName, src |-> "person"]>>

\* C4: a run that fails at any step leaves the output file with the
\* existence and content it had before the run.
C4_FailureLeavesOutput == pc = "failed" => out = out0

\* the lines of a text that open a class, in order
IsClassLine(l) == l # <<>> /\ l[1] = "class "
IsFieldLine(l) == l # <<>> /\ l[1] = "    "
IsFullNameLine(l) == l # <<>> /\ l[1] = "    _avro_fullname: Final[str] = \""
IsNamespaceLine(l) == l # <<>> /\ l[1] = "    _avro_namespace: Final[str] = \""
IsDecoratorLine(l) == l = <<"@dataclasses.dataclass">>

RECURSIVE Ascending(_)
Ascending(S) ==
    IF S = {} THEN <<>>
    ELSE LET m == CHOOSE x \in S : \A y \in S : x <= y
         IN  <<m>> \o Ascending(S \ {m})

ClassLines(text) == Ascending({i \in 1..Len(text) : IsClassLine(text[i])})

\* the lines of the k-th declaration of a text: from its class line up to
\* the next class line
Declaration(text, k) ==
    LET at == ClassLines(text)
    IN  SubSeq(text, at[k], IF k < Len(at) THEN at[k + 1] - 1 ELSE Len(text))

IsPrefix(p, q) == Len(p) <= Len(q) /\ SubSeq(q, 1, Len(p)) = p

FullNameLine(n) ==
    <<"    _avro_fullname: Final[str] = \"">> \o FullName(n) \o <<"\"">>
NamespaceLine(n) == <<"    _avro_namespace: Final[str] = \"", n.ns, "\"">>

\* C8: on a successful run the output has one declaration per generate
\* document, in the order of the generate arguments, each with its fields in
\* the record's declaration order and with its full-name and namespace
\* attributes, even with no field; no include document is declared.
C8_DeclarationOrder ==
    pc = "done" =>
        /\ Len(ClassLines(out.content)) = Len(generate_files)
        /\ \A k \in 1..Len(generate_files) :
              LET d == FileContent(generate_files[k])
                  decl == Declaration(out.content, k)
                  fieldlines == SelectSeq(decl, IsFieldLine)
                  idlines == {i \in 1..Len(decl) :
                                 IsFullNameLine(decl[i]) \/ IsNamespaceLine(decl[i])}
              IN  /\ IsPrefix(<<"class ">> \o capital_case(d.name.name) \o <<":">>,
                              decl[1])
                  /\ Len(fieldlines) = Len(d.fields)
                  /\ \A i \in 1..Len(d.fields) : fieldlines[i][2] = d.fields[i].name
                  /\ Cardinality(idlines) = 2
                  /\ \E i \in idlines :
                        /\ decl[i] = FullNameLine(d.name)
                        /\ decl[i + 1] = NamespaceLine(d.name)
                        /\ \A j \in 1..Len(decl) : IsFieldLine(decl[j]) => j < i
        /\ \A f \in Range(include_files) : \A i \in 1..Len(out.content) :
              out.content[i] # FullNameLine(FileContent(f).name)

\* two declarations, the second without fields, after an include document
C8_Witness ==
    /\ pc = "done"
    /\ include_files = <<"choice">>
    /\ generate_files = <<"person", "base">>
    /\ Len(ClassLines(out.content)) = 2
    /\ Len(SelectSeq(Declaration(out.content, 1), IsFieldLine)) = 4
    /\ Len(SelectSeq(Declaration(out.content, 2), IsFieldLine)) = 0

\* the first field, in template order, whose type avrotype_to_pytype rejects
RejectedFields ==
    UNION {{<<k, i>> : i \in {j \in 1..Len(schemas[k].fields) :
                                 ~avrotype_to_pytype(schemas[k].fields[j].type).ok}} :
           k \in 1..Len(schemas)}

FirstRejected ==
    CHOOSE p \in RejectedFields :
        \A q \in RejectedFields : p[1] < q[1] \/ (p[1] = q[1] /\ p[2] <= q[2])

\* the record of document f is on a cycle of references through name n
OnCycle(f, n) ==
    \/ n = FileContent(f).name
    \/ \E t \in Range(FieldTypes(FileContent(f).fields)) :
          n \in DefsOf(t) /\ FileContent(f).name \in RefsOf(t)

\* C9: mapping a self-referential record, or a record on a cycle of
\* mutually referencing records, ends with CyclicSchemaError and with no
\* other kind of error.
C9_CyclicSchemaError ==
    (pc = "failed" /\ err.stage = "render") =>
        LET k == FirstRejected[1]
            t == schemas[k].fields[FirstRejected[2]].type
        IN  (t.tag = "record" /\ OnCycle(schemas[k].file, t.name))
                => err.kind = "CyclicSchemaError"

\* C10: every class of the output has its own @dataclasses.dataclass line
\* right before it, so there are as many decorator lines as classes.
C10_EveryClassDecorated ==
    pc = "done" =>
        /\ \A i \in 1..Len(out.content) :
              IsClassLine(out.content[i]) =>
                  i > 1 /\ IsDecoratorLine(out.content[i - 1])
        /\ Len(SelectSeq(out.content, IsDecoratorLine))
              = Len(SelectSeq(out.content, IsClassLine))

====
